---- MODULE Spec2Model ----
(***************************************************************************)
(* pg-archiver: one invocation of the archiver (run() called from main())  *)
(* against a PostgreSQL database, the local file /tmp/archive.parquet and  *)
(* an S3 bucket.  Both programs of the repository are modelled: the        *)
(* multi-table archiver (main.go) and the single-table archiver            *)
(* (unnamed/part_000); `variant` says which binary is deployed.            *)
(*                                                                         *)
(* Time is an integer count of ticks.  The calendar is scaled down so that *)
(* instants inside one second, in different seconds, months and years all  *)
(* occur among a handful of ticks.  batchSize and retentionDays are the    *)
(* program's constants 100 and 90, scaled down likewise so that a table    *)
(* can hold more qualifying rows than one batch takes.                     *)
(***************************************************************************)
EXTENDS Integers, Sequences, FiniteSets, TLC

\* ---------------------------------------------------------------- bounds
MaxTs == 3              \* row timestamps are 0..MaxTs
StartCutoff == 3        \* the cutoff of a run started at the initial instant
MaxRuns == 2            \* invocations of the archiver in a sequence of runs
MaxInserts == 1         \* rows inserted by other writers
TicksPerSecond == 2     \* calendar, scaled
SecondsPerDay == 1
DaysPerMonth == 1
MonthsPerYear == 2
NanosPerTick == 2       \* nanoseconds in a tick, scaled
MaxInt64 == 15          \* the largest int64, scaled: a tick count above
                        \* MaxInt64 \div NanosPerTick has no int64 nanosecond count

\* ------------------------------------------------------ program constants
batchSize == 3          \* batchSize := 100, scaled
retentionDays == 1      \* retentionDays := 90, scaled

Procs == {1, 2}         \* processes that may run the archiver
SeqProcs == {1}         \* the process of a sequence of non-overlapping runs
Variants == {"multi", "single"}

Tables == {"a", "b"}
tableNames == <<"a", "b">>      \* TABLE_NAMES, split and trimmed
tableName == "a"                \* TABLE_NAME of the single-table archiver

Times == 0..MaxTs
Ids == {1}
Devices == {"d1"}
Values == {0}
\* a row of a source table: id, timestamp, device_id, value
Rows == [id : Ids, timestamp : Times, device_id : Devices, value : Values]

VARIABLES
    now,            \* wall clock, in ticks
    tables,         \* tables[t]: the rows of source table t
    file,           \* /tmp/archive.parquet
    s3,             \* the bucket: a set of [key, body]
    variant,        \* which archiver is deployed
    runs,           \* invocations started so far
    inserts,        \* rows inserted by other writers so far
    pc,             \* pc[p]: where process p is in main()/run()
    cutoff,         \* run(): cutoff
    tix,            \* run(): index of the table the current loop is at
    allRecords,     \* run(): allRecords (records in the single-table archiver)
    lastTimestamp,  \* run(): lastTimestamp
    s3Key,          \* run(): s3Key
    err,            \* the error run() returned, "nil" for none; "panic" after a fault
    exit,           \* exit status of the process, -1 while it runs
    ops,            \* ops[p]: the calls the run has made on database, disk and S3
    retained        \* retained[t]: the rows below its cutoff that the last run to
                    \* exit left in table t when its purge failed

vars == <<now, tables, file, s3, variant, runs, inserts, pc, cutoff, tix,
          allRecords, lastTimestamp, s3Key, err, exit, ops, retained>>

globals == <<now, tables, file, s3, variant, runs, inserts>>

\* ------------------------------------------------------------- time.Time
TicksPerDay == TicksPerSecond * SecondsPerDay

\* a Go int64: arithmetic wraps around
Int64(x) == ((x + MaxInt64 + 1) % (2 * (MaxInt64 + 1))) - (MaxInt64 + 1)

\* t.AddDate(0, 0, days)
AddDate(t, days) == t + days * TicksPerDay
\* t.After(u)
After(t, u) == t > u
\* t.UnixNano(): an int64; for an instant outside the int64 nanosecond range
\* the multiplication wraps
UnixNano(t) == Int64(t * NanosPerTick)

UnixSecond(t) == t \div TicksPerSecond
MonthIndex(t) == UnixSecond(t) \div (SecondsPerDay * DaysPerMonth)
\* t.Year(), t.Month(): the epoch is January 1970
Year(t) == 1970 + (MonthIndex(t) \div MonthsPerYear)
Month(t) == (MonthIndex(t) % MonthsPerYear) + 1
\* t.Format("20060102_150405"): the instant rendered to the second
Format(t) == UnixSecond(t)

\* ------------------------------------------------------------ sequences
Min(x, y) == IF x < y THEN x ELSE y
Range(s) == {s[i] : i \in DOMAIN s}
\* Take of a query without its LIMIT clause
Take_Unlimited(s, n) == s

\* the first n elements of s: the rows a LIMIT n lets through
Take(s, n) == SubSeq(s, 1, Min(n, Len(s)))

RECURSIVE Orderings(_)
\* every sequence that lists the finite set S once
Orderings(S) ==
    IF S = {} THEN {<<>>}
    ELSE UNION {{<<x>> \o s : s \in Orderings(S \ {x})} : x \in S}

IsDescending(s) == \A i \in 1..(Len(s) - 1) : s[i].timestamp >= s[i + 1].timestamp

\* ------------------------------------------------------------- database
\* SELECT id, timestamp, device_id, value FROM t WHERE timestamp < $1
\* ORDER BY timestamp DESC LIMIT $2: the possible result sets (rows of equal
\* timestamp come in any order)
Matching(rows, c) == {r \in rows : r.timestamp < c}
Select(rows, c, limit) ==
    {Take(s, limit) : s \in {o \in Orderings(Matching(rows, c)) : IsDescending(o)}}

\* DeleteWhere with the comparison WHERE timestamp <= $1
DeleteWhere_Inclusive(rows, c) == {r \in rows : r.timestamp <= c}

\* DELETE FROM t WHERE timestamp < $1: the rows the statement removes
DeleteWhere(rows, c) == {r \in rows : r.timestamp < c}

\* ------------------------------------------------------------- records
\* Record without the assignment record.TableName = tableName
Record_Untagged(row, t) ==
    [ID |-> row.id, Timestamp |-> row.timestamp, DeviceID |-> row.device_id,
     Value |-> row.value, TableName |-> ""]

\* IoTRecord of main.go: the scanned row, then record.TableName = tableName
Record(row, t) ==
    [ID |-> row.id, Timestamp |-> row.timestamp, DeviceID |-> row.device_id,
     Value |-> row.value, TableName |-> t]
\* IoTRecord of the single-table archiver: no TableName
RecordSingle(row) ==
    [ID |-> row.id, Timestamp |-> row.timestamp, DeviceID |-> row.device_id,
     Value |-> row.value]

ToParquet(r) ==
    [ID |-> r.ID, Timestamp |-> UnixNano(r.Timestamp), DeviceID |-> r.DeviceID,
     Value |-> r.Value, TableName |-> r.TableName]
ToParquetSingle(r) ==
    [ID |-> r.ID, Timestamp |-> UnixNano(r.Timestamp), DeviceID |-> r.DeviceID,
     Value |-> r.Value]

\* Encode of a write loop that takes the records last to first
Encode_Reversed(v, records) ==
    [i \in DOMAIN records |->
        IF v = "multi" THEN ToParquet(records[Len(records) + 1 - i])
        ELSE ToParquetSingle(records[Len(records) + 1 - i])]

\* the write loop of writeParquetFile: pw.Write(record.ToParquet()) for each
\* record, in slice order
Encode(v, records) ==
    [i \in DOMAIN records |->
        IF v = "multi" THEN ToParquet(records[i]) ELSE ToParquetSingle(records[i])]

\* the tables a run works on, in configuration order
Configured(v) == IF v = "multi" THEN tableNames ELSE <<tableName>>

\* ---------------------------------------------------------- object key
RECURSIVE LatestFrom(_, _, _)
\* the scan of allRecords[1:] for the latest timestamp, from index i on
LatestFrom(records, i, latest) ==
    IF i > Len(records) THEN latest
    ELSE LatestFrom(records, i + 1,
                    IF After(records[i].Timestamp, latest) THEN records[i].Timestamp
                    ELSE latest)

\* LatestTimestamp without the scan of allRecords[1:]
LatestTimestamp_FirstRecord(records) == records[1].Timestamp

LatestTimestamp(records) == LatestFrom(records, 2, records[1].Timestamp)

\* "year=%d/month=%02d/multi_table_%s.parquet"
S3Key(ts) == [year |-> Year(ts), month |-> Month(ts), name |-> "multi_table", stamp |-> Format(ts)]
\* "year=%d/month=%02d/%s_%s.parquet"
S3KeySingle(ts, t) == [year |-> Year(ts), month |-> Month(ts), name |-> t, stamp |-> Format(ts)]

NoFile == [state |-> "absent", rows |-> <<>>]
NoKey == [year |-> 0, month |-> 0, name |-> "", stamp |-> 0]
NoTime == 0 - 1
NoExit == 0 - 1         \* the exit status of a process that has not exited
NoneRetained == [t \in Tables |-> {}]

\* an entry of ops: the call, the table it was on, whether it returned without
\* error, and the rows it matched (Query) or removed (Delete)
Op(o, t, ok, rows) == [op |-> o, table |-> t, ok |-> ok, rows |-> rows]

\* ----------------------------------------------------------------- Init
\* the first configured table holds any rows; the others start empty and are
\* filled by other writers
Init ==
    /\ now = AddDate(StartCutoff, retentionDays)
    /\ variant \in Variants
    /\ \E rows \in SUBSET Rows :
          tables = [t \in Tables |-> IF t = tableNames[1] THEN rows ELSE {}]
    /\ file = NoFile
    /\ s3 = {}
    /\ runs = 0
    /\ inserts = 0
    /\ pc = [p \in Procs |-> "idle"]
    /\ cutoff = [p \in Procs |-> NoTime]
    /\ tix = [p \in Procs |-> 1]
    /\ allRecords = [p \in Procs |-> <<>>]
    /\ lastTimestamp = [p \in Procs |-> NoTime]
    /\ s3Key = [p \in Procs |-> NoKey]
    /\ err = [p \in Procs |-> "nil"]
    /\ exit = [p \in Procs |-> NoExit]
    /\ ops = [p \in Procs |-> <<>>]
    /\ retained = NoneRetained

\* run() returns e
Return(p, e) ==
    /\ pc' = [pc EXCEPT ![p] = "returned"]
    /\ err' = [err EXCEPT ![p] = e]

\* ------------------------------------------------------------- actions
\* Launch of a main() that takes a lock no other running archiver holds
Launch_WithLock(p) ==
    /\ \A q \in Procs \ {p} : pc[q] \in {"idle", "exited"}
    /\ runs' = runs + 1
    /\ tix' = [tix EXCEPT ![p] = 1]
    /\ allRecords' = [allRecords EXCEPT ![p] = <<>>]
    /\ lastTimestamp' = [lastTimestamp EXCEPT ![p] = NoTime]
    /\ s3Key' = [s3Key EXCEPT ![p] = NoKey]
    /\ exit' = [exit EXCEPT ![p] = NoExit]
    /\ ops' = [ops EXCEPT ![p] = <<>>]
    /\ \E connected \in BOOLEAN :
        IF connected
        THEN /\ cutoff' = [cutoff EXCEPT ![p] = AddDate(now, -retentionDays)]
             /\ pc' = [pc EXCEPT ![p] = "extract"]
             /\ err' = [err EXCEPT ![p] = "nil"]
        ELSE /\ cutoff' = [cutoff EXCEPT ![p] = NoTime]
             /\ Return(p, "connect")
    /\ UNCHANGED <<retained, now, tables, file, s3, variant, inserts>>

\* main() calls run(), which reads its configuration, opens and pings the
\* database and computes the cutoff
Launch(p) ==
    /\ runs' = runs + 1
    /\ tix' = [tix EXCEPT ![p] = 1]
    /\ allRecords' = [allRecords EXCEPT ![p] = <<>>]
    /\ lastTimestamp' = [lastTimestamp EXCEPT ![p] = NoTime]
    /\ s3Key' = [s3Key EXCEPT ![p] = NoKey]
    /\ exit' = [exit EXCEPT ![p] = NoExit]
    /\ ops' = [ops EXCEPT ![p] = <<>>]
    /\ \E connected \in BOOLEAN :
        IF connected
        THEN /\ cutoff' = [cutoff EXCEPT ![p] = AddDate(now, -retentionDays)]
             /\ pc' = [pc EXCEPT ![p] = "extract"]
             /\ err' = [err EXCEPT ![p] = "nil"]
        ELSE /\ cutoff' = [cutoff EXCEPT ![p] = NoTime]
             /\ Return(p, "connect")
    /\ UNCHANGED <<retained, now, tables, file, s3, variant, inserts>>

\* the archiver is invoked
Start(p) ==
    /\ pc[p] = "idle"
    /\ Launch(p)

\* the archiver is invoked again after it has exited
Restart(p) ==
    /\ pc[p] = "exited"
    /\ runs < MaxRuns
    /\ Launch(p)

\* ProcessTable of a run() that logs the error of a table and goes on to the next
ProcessTable_SkipsFailedTable(p) ==
    /\ pc[p] = "extract"
    /\ LET t == Configured(variant)[tix[p]]
           last == tix[p] = Len(Configured(variant))
       IN \E outcome \in {"ok", "query", "scan", "rows"} :
          \E result \in Select(tables[t], cutoff[p], batchSize) :
            /\ outcome = "scan" => result # <<>>
            /\ ops' = [ops EXCEPT ![p] =
                  Append(@, Op("Query", t, outcome = "ok", Matching(tables[t], cutoff[p])))]
            /\ IF outcome = "ok"
               THEN /\ allRecords' = [allRecords EXCEPT ![p] =
                          @ \o [i \in DOMAIN result |->
                                  IF variant = "multi" THEN Record(result[i], t)
                                  ELSE RecordSingle(result[i])]]
                    /\ lastTimestamp' = [lastTimestamp EXCEPT ![p] =
                          IF variant = "single" /\ result # <<>>
                          THEN result[1].timestamp ELSE @]
                    /\ tix' = [tix EXCEPT ![p] = IF last THEN 1 ELSE @ + 1]
                    /\ pc' = [pc EXCEPT ![p] = IF last THEN "check" ELSE "extract"]
                    /\ UNCHANGED err
               ELSE /\ tix' = [tix EXCEPT ![p] = IF last THEN 1 ELSE @ + 1]
                    /\ pc' = [pc EXCEPT ![p] = IF last THEN "check" ELSE "extract"]
                    /\ UNCHANGED <<allRecords, lastTimestamp, err>>
    /\ UNCHANGED <<globals, retained, cutoff, s3Key, exit>>

\* processTable(db, tableNames[tix], cutoff, batchSize) and the append of its
\* records to allRecords; in the single-table archiver the query and scan loop
\* of run(), which sets lastTimestamp from the first row it reads
ProcessTable(p) ==
    /\ pc[p] = "extract"
    /\ LET t == Configured(variant)[tix[p]]
           last == tix[p] = Len(Configured(variant))
       IN \E outcome \in {"ok", "query", "scan", "rows"} :
          \E result \in Select(tables[t], cutoff[p], batchSize) :
            /\ outcome = "scan" => result # <<>>
            /\ ops' = [ops EXCEPT ![p] =
                  Append(@, Op("Query", t, outcome = "ok", Matching(tables[t], cutoff[p])))]
            /\ IF outcome = "ok"
               THEN /\ allRecords' = [allRecords EXCEPT ![p] =
                          @ \o [i \in DOMAIN result |->
                                  IF variant = "multi" THEN Record(result[i], t)
                                  ELSE RecordSingle(result[i])]]
                    /\ lastTimestamp' = [lastTimestamp EXCEPT ![p] =
                          IF variant = "single" /\ result # <<>>
                          THEN result[1].timestamp ELSE @]
                    /\ tix' = [tix EXCEPT ![p] = IF last THEN 1 ELSE @ + 1]
                    /\ pc' = [pc EXCEPT ![p] = IF last THEN "check" ELSE "extract"]
                    /\ UNCHANGED err
               ELSE /\ Return(p, outcome)
                    /\ UNCHANGED <<allRecords, lastTimestamp, tix>>
    /\ UNCHANGED <<globals, retained, cutoff, s3Key, exit>>

\* CheckEmpty without the return on an empty batch
CheckEmpty_NoReturn(p) ==
    /\ pc[p] = "check"
    /\ pc' = [pc EXCEPT ![p] = "encode"]
    /\ lastTimestamp' = [lastTimestamp EXCEPT ![p] =
          IF variant = "multi" /\ allRecords[p] # <<>>
          THEN LatestTimestamp(allRecords[p]) ELSE @]
    /\ UNCHANGED <<globals, retained, cutoff, tix, allRecords, s3Key, err, exit, ops>>

\* if len(allRecords) == 0 { return nil }, then the scan for the latest
\* timestamp (the single-table archiver has it already)
CheckEmpty(p) ==
    /\ pc[p] = "check"
    /\ IF Len(allRecords[p]) = 0
       THEN /\ Return(p, "nil")
            /\ UNCHANGED lastTimestamp
       ELSE /\ pc' = [pc EXCEPT ![p] = "encode"]
            /\ lastTimestamp' = [lastTimestamp EXCEPT ![p] =
                  IF variant = "multi" THEN LatestTimestamp(allRecords[p]) ELSE @]
            /\ UNCHANGED err
    /\ UNCHANGED <<globals, retained, cutoff, tix, allRecords, s3Key, exit, ops>>

\* WriteParquetFile of an encoder that leaves a finished file of an earlier
\* run as it is
WriteParquetFile_KeepsExisting(p) ==
    /\ pc[p] = "encode"
    /\ \E outcome \in {"ok", "create", "writer", "write", "stop", "close"} :
        /\ file' = CASE outcome = "ok" /\ file.state = "closed" -> file
                     [] outcome = "ok" /\ file.state # "closed" ->
                          [state |-> "closed", rows |-> Encode(variant, allRecords[p])]
                     [] outcome = "create" -> file
                     [] OTHER -> [state |-> "partial", rows |-> <<>>]
        /\ ops' = [ops EXCEPT ![p] = Append(@, Op("WriteFile", "", outcome = "ok", {}))]
        /\ IF outcome = "ok"
           THEN /\ pc' = [pc EXCEPT ![p] = "config"]
                /\ UNCHANGED err
           ELSE Return(p, outcome)
    /\ UNCHANGED <<retained, now, tables, s3, variant, runs, inserts, cutoff, tix, allRecords,
                   lastTimestamp, s3Key, exit>>

\* WriteParquetFile of an encoder that returns a write error without fw.Close()
WriteParquetFile_LeaksHandle(p) ==
    /\ pc[p] = "encode"
    /\ \E outcome \in {"ok", "create", "writer", "write", "stop", "close"} :
        /\ file' = CASE outcome = "ok" ->
                          [state |-> "closed", rows |-> Encode(variant, allRecords[p])]
                     [] outcome = "create" -> file
                     [] outcome = "write" -> [state |-> "open", rows |-> <<>>]
                     [] OTHER -> [state |-> "partial", rows |-> <<>>]
        /\ ops' = [ops EXCEPT ![p] = Append(@, Op("WriteFile", "", outcome = "ok", {}))]
        /\ IF outcome = "ok"
           THEN /\ pc' = [pc EXCEPT ![p] = "config"]
                /\ UNCHANGED err
           ELSE Return(p, outcome)
    /\ UNCHANGED <<retained, now, tables, s3, variant, runs, inserts, cutoff, tix, allRecords,
                   lastTimestamp, s3Key, exit>>

\* WriteParquetFile of a run() that goes on to the upload whatever the encoder returned
WriteParquetFile_ErrorIgnored(p) ==
    /\ pc[p] = "encode"
    /\ \E outcome \in {"ok", "create", "writer", "write", "stop", "close"} :
        /\ file' = CASE outcome = "ok" ->
                          [state |-> "closed", rows |-> Encode(variant, allRecords[p])]
                     [] outcome = "create" -> file
                     [] OTHER -> [state |-> "partial", rows |-> <<>>]
        /\ ops' = [ops EXCEPT ![p] = Append(@, Op("WriteFile", "", outcome = "ok", {}))]
        /\ pc' = [pc EXCEPT ![p] = "config"]
        /\ UNCHANGED err
    /\ UNCHANGED <<retained, now, tables, s3, variant, runs, inserts, cutoff, tix, allRecords,
                   lastTimestamp, s3Key, exit>>

\* writeParquetFile(allRecords, "/tmp/archive.parquet").  NewLocalFileWriter
\* creates or truncates the file; until WriteStop has written the footer and
\* Close has returned, no row can be read back from it.  Every error path
\* after the creation calls fw.Close(), so the file is never left "open"
WriteParquetFile(p) ==
    /\ pc[p] = "encode"
    /\ \E outcome \in {"ok", "create", "writer", "write", "stop", "close"} :
        /\ file' = CASE outcome = "ok" ->
                          [state |-> "closed", rows |-> Encode(variant, allRecords[p])]
                     [] outcome = "create" -> file
                     [] OTHER -> [state |-> "partial", rows |-> <<>>]
        /\ ops' = [ops EXCEPT ![p] = Append(@, Op("WriteFile", "", outcome = "ok", {}))]
        /\ IF outcome = "ok"
           THEN /\ pc' = [pc EXCEPT ![p] = "config"]
                /\ UNCHANGED err
           ELSE Return(p, outcome)
    /\ UNCHANGED <<retained, now, tables, s3, variant, runs, inserts, cutoff, tix, allRecords,
                   lastTimestamp, s3Key, exit>>

\* config.LoadDefaultConfig, s3.NewFromConfig and the Sprintf of s3Key
LoadConfig(p) ==
    /\ pc[p] = "config"
    /\ \E loaded \in BOOLEAN :
        IF loaded
        THEN /\ s3Key' = [s3Key EXCEPT ![p] =
                   IF variant = "multi" THEN S3Key(lastTimestamp[p])
                   ELSE S3KeySingle(lastTimestamp[p], tableName)]
             /\ pc' = [pc EXCEPT ![p] = "open"]
             /\ UNCHANGED err
        ELSE /\ Return(p, "awsconfig")
             /\ UNCHANGED s3Key
    /\ UNCHANGED <<globals, retained, cutoff, tix, allRecords, lastTimestamp, exit, ops>>

\* os.Open(parquetFile)
OpenFile(p) ==
    /\ pc[p] = "open"
    /\ \E opened \in BOOLEAN :
        IF opened /\ file.state # "absent"
        THEN /\ pc' = [pc EXCEPT ![p] = "put"]
             /\ UNCHANGED err
        ELSE Return(p, "open")
    /\ UNCHANGED <<globals, retained, cutoff, tix, allRecords, lastTimestamp, s3Key, exit, ops>>

\* PutObject of a run() that calls PutObject again after it failed
PutObject_Retries(p) ==
    /\ pc[p] = "put"
    /\ \E stored \in BOOLEAN :
        /\ ops' = [ops EXCEPT ![p] = Append(@, Op("PutObject", "", stored, {}))]
        /\ IF stored
           THEN /\ s3' = {o \in s3 : o.key # s3Key[p]}
                            \cup {[key |-> s3Key[p], body |-> file.rows]}
                /\ pc' = [pc EXCEPT ![p] = "purge"]
                /\ UNCHANGED err
           ELSE IF \A i \in DOMAIN ops[p] : ops[p][i].op # "PutObject"
           THEN UNCHANGED <<s3, pc, err>>
           ELSE /\ Return(p, "upload")
                /\ UNCHANGED s3
    /\ UNCHANGED <<retained, now, tables, file, variant, runs, inserts, cutoff, tix, allRecords,
                   lastTimestamp, s3Key, exit>>

\* PutObject of a run() that goes on to the purge whatever PutObject returned
PutObject_ErrorIgnored(p) ==
    /\ pc[p] = "put"
    /\ \E stored \in BOOLEAN :
        /\ ops' = [ops EXCEPT ![p] = Append(@, Op("PutObject", "", stored, {}))]
        /\ IF stored
           THEN /\ s3' = {o \in s3 : o.key # s3Key[p]}
                            \cup {[key |-> s3Key[p], body |-> file.rows]}
                /\ pc' = [pc EXCEPT ![p] = "purge"]
                /\ UNCHANGED err
           ELSE /\ pc' = [pc EXCEPT ![p] = "purge"]
                /\ UNCHANGED <<s3, err>>
    /\ UNCHANGED <<retained, now, tables, file, variant, runs, inserts, cutoff, tix, allRecords,
                   lastTimestamp, s3Key, exit>>

\* s3Client.PutObject(Bucket, Key: s3Key, Body: file)
PutObject(p) ==
    /\ pc[p] = "put"
    /\ \E stored \in BOOLEAN :
        /\ ops' = [ops EXCEPT ![p] = Append(@, Op("PutObject", "", stored, {}))]
        /\ IF stored
           THEN /\ s3' = {o \in s3 : o.key # s3Key[p]}
                            \cup {[key |-> s3Key[p], body |-> file.rows]}
                /\ pc' = [pc EXCEPT ![p] = "purge"]
                /\ UNCHANGED err
           ELSE /\ Return(p, "upload")
                /\ UNCHANGED s3
    /\ UNCHANGED <<retained, now, tables, file, variant, runs, inserts, cutoff, tix, allRecords,
                   lastTimestamp, s3Key, exit>>

\* DeleteArchivedRecords of a run() that goes on to the next table after a
\* delete statement failed
DeleteArchivedRecords_ContinuesAfterError(p) ==
    /\ pc[p] = "purge"
    /\ LET t == Configured(variant)[tix[p]]
           last == tix[p] = Len(Configured(variant))
           gone == DeleteWhere(tables[t], cutoff[p])
       IN \E outcome \in {"ok", "exec", "affected"} :
            IF outcome = "exec"
            THEN /\ ops' = [ops EXCEPT ![p] = Append(@, Op("Delete", t, FALSE, {}))]
                 /\ UNCHANGED tables
                 /\ IF last
                    THEN /\ Return(p, "delete")
                         /\ UNCHANGED tix
                    ELSE /\ tix' = [tix EXCEPT ![p] = @ + 1]
                         /\ UNCHANGED <<pc, err>>
            ELSE /\ tables' = [tables EXCEPT ![t] = @ \ gone]
                 /\ ops' = [ops EXCEPT ![p] = Append(@,
                       Op("Delete", t, ~(outcome = "affected" /\ variant = "multi"), gone))]
                 /\ IF outcome = "affected" /\ variant = "multi"
                    THEN /\ Return(p, "affected")
                         /\ UNCHANGED tix
                    ELSE IF last
                    THEN /\ Return(p, "nil")
                         /\ UNCHANGED tix
                    ELSE /\ tix' = [tix EXCEPT ![p] = @ + 1]
                         /\ UNCHANGED <<pc, err>>
    /\ UNCHANGED <<retained, now, file, s3, variant, runs, inserts, cutoff, allRecords,
                   lastTimestamp, s3Key, exit>>

\* DeleteArchivedRecords of a run() that computes the cutoff anew for the purge
DeleteArchivedRecords_RecomputesCutoff(p) ==
    /\ pc[p] = "purge"
    /\ LET t == Configured(variant)[tix[p]]
           last == tix[p] = Len(Configured(variant))
           gone == DeleteWhere(tables[t], AddDate(now, -retentionDays))
       IN \E outcome \in {"ok", "exec", "affected"} :
            IF outcome = "exec"
            THEN /\ Return(p, "delete")
                 /\ ops' = [ops EXCEPT ![p] = Append(@, Op("Delete", t, FALSE, {}))]
                 /\ UNCHANGED <<tables, tix>>
            ELSE /\ tables' = [tables EXCEPT ![t] = @ \ gone]
                 /\ ops' = [ops EXCEPT ![p] = Append(@,
                       Op("Delete", t, ~(outcome = "affected" /\ variant = "multi"), gone))]
                 /\ IF outcome = "affected" /\ variant = "multi"
                    THEN /\ Return(p, "affected")
                         /\ UNCHANGED tix
                    ELSE IF last
                    THEN /\ Return(p, "nil")
                         /\ UNCHANGED tix
                    ELSE /\ tix' = [tix EXCEPT ![p] = @ + 1]
                         /\ UNCHANGED <<pc, err>>
    /\ UNCHANGED <<retained, now, file, s3, variant, runs, inserts, cutoff, allRecords,
                   lastTimestamp, s3Key, exit>>

\* deleteArchivedRecords(db, tableNames[tix], cutoff); in the single-table
\* archiver the db.Exec of run(), which ignores the error of RowsAffected
DeleteArchivedRecords(p) ==
    /\ pc[p] = "purge"
    /\ LET t == Configured(variant)[tix[p]]
           last == tix[p] = Len(Configured(variant))
           gone == DeleteWhere(tables[t], cutoff[p])
       IN \E outcome \in {"ok", "exec", "affected"} :
            IF outcome = "exec"
            THEN /\ Return(p, "delete")
                 /\ ops' = [ops EXCEPT ![p] = Append(@, Op("Delete", t, FALSE, {}))]
                 /\ UNCHANGED <<tables, tix>>
            ELSE /\ tables' = [tables EXCEPT ![t] = @ \ gone]
                 /\ ops' = [ops EXCEPT ![p] = Append(@,
                       Op("Delete", t, ~(outcome = "affected" /\ variant = "multi"), gone))]
                 /\ IF outcome = "affected" /\ variant = "multi"
                    THEN /\ Return(p, "affected")
                         /\ UNCHANGED tix
                    ELSE IF last
                    THEN /\ Return(p, "nil")
                         /\ UNCHANGED tix
                    ELSE /\ tix' = [tix EXCEPT ![p] = @ + 1]
                         /\ UNCHANGED <<pc, err>>
    /\ UNCHANGED <<retained, now, file, s3, variant, runs, inserts, cutoff, allRecords,
                   lastTimestamp, s3Key, exit>>

\* the errors run() returns from its purge loop
PurgeErrors == {"delete", "affected"}

Running == {"extract", "check", "encode", "config", "open", "put", "purge"}

\* ExitStatus of a main() that drops the error run() returned
ExitStatus_DropsError(state, e) == IF state = "returned" THEN 0 ELSE 1

\* the status main() exits with: 0 when run() returned nil, 1 when it returned
\* an error or the deferred function recovered a panic
ExitStatus(state, e) == IF state = "returned" /\ e = "nil" THEN 0 ELSE 1

\* the process exits with status code after writing message e to the error
\* stream; nothing of run() outlives it
Exit(p, code, e) ==
    /\ pc' = [pc EXCEPT ![p] = "exited"]
    /\ exit' = [exit EXCEPT ![p] = code]
    /\ cutoff' = [cutoff EXCEPT ![p] = NoTime]
    /\ tix' = [tix EXCEPT ![p] = 1]
    /\ allRecords' = [allRecords EXCEPT ![p] = <<>>]
    /\ lastTimestamp' = [lastTimestamp EXCEPT ![p] = NoTime]
    /\ s3Key' = [s3Key EXCEPT ![p] = NoKey]
    /\ err' = [err EXCEPT ![p] = e]
    /\ ops' = [ops EXCEPT ![p] = <<>>]

\* main(): run() returned; os.Exit(1) on an error.  The rows a failed purge
\* left below the cutoff stay in the tables
Main(p) ==
    /\ pc[p] = "returned"
    /\ Exit(p, ExitStatus(pc[p], err[p]), err[p])
    /\ retained' = IF err[p] \in PurgeErrors
                   THEN [t \in Tables |->
                           IF t \in Range(Configured(variant))
                           THEN Matching(tables[t], cutoff[p]) ELSE {}]
                   ELSE NoneRetained
    /\ UNCHANGED globals

\* a fault inside run(): the deferred function of main() recovers it and
\* calls os.Exit(1)
Panic(p) ==
    /\ pc[p] \in Running
    /\ Exit(p, ExitStatus("panic", err[p]), "panic")
    /\ retained' = NoneRetained
    /\ UNCHANGED globals

\* ---------------------------------------------------------- environment
\* another writer inserts a row into a configured source table
Insert(t, r) ==
    /\ inserts < MaxInserts
    /\ t \in Range(Configured(variant))
    /\ r \notin tables[t]
    /\ tables' = [tables EXCEPT ![t] = @ \cup {r}]
    /\ inserts' = inserts + 1
    /\ UNCHANGED <<retained, now, file, s3, variant, runs, pc, cutoff, tix, allRecords,
                   lastTimestamp, s3Key, err, exit, ops>>

\* time passes
Tick ==
    /\ AddDate(now, -retentionDays) <= MaxTs
    /\ now' = now + 1
    /\ UNCHANGED <<tables, file, s3, variant, runs, inserts, pc, cutoff, tix,
                   allRecords, lastTimestamp, s3Key, err, exit, ops, retained>>

Next ==
    \/ \E p \in SeqProcs : Start(p)
    \/ \E p \in SeqProcs : ProcessTable(p)
    \/ \E p \in SeqProcs : CheckEmpty(p)
    \/ \E p \in SeqProcs : WriteParquetFile(p)
    \/ \E p \in SeqProcs : LoadConfig(p)
    \/ \E p \in SeqProcs : OpenFile(p)
    \/ \E p \in SeqProcs : PutObject(p)
    \/ \E p \in SeqProcs : DeleteArchivedRecords(p)
    \/ \E p \in SeqProcs : Panic(p)
    \/ \E p \in SeqProcs : Main(p)
    \/ \E t \in Tables, r \in Rows : Insert(t, r)
    \/ Tick

\* one invocation of the archiver
Spec == Init /\ [][Next]_vars

\* a sequence of invocations, each after the one before has exited
NextRuns ==
    \/ Next
    \/ \E p \in SeqProcs : Restart(p)

SpecRuns == Init /\ [][NextRuns]_vars

\* ------------------------------------------------------ what a run did
\* the indices of the calls o in the log of p
Calls(p, o) == {i \in DOMAIN ops[p] : ops[p][i].op = o}
\* the rows a delete statement of p removed from table t
Removed(p, t) ==
    UNION {ops[p][i].rows : i \in {j \in Calls(p, "Delete") : ops[p][j].table = t}}
\* the source row a record was scanned from
RowOf(rec) ==
    [id |-> rec.ID, timestamp |-> rec.Timestamp, device_id |-> rec.DeviceID,
     value |-> rec.Value]
\* the rows of table t in the batch of p
Extracted(p, t) ==
    {RowOf(allRecords[p][i]) : i \in {j \in DOMAIN allRecords[p] :
        variant = "multi" => allRecords[p][j].TableName = t}}
\* every configured source has been queried without error
ExtractionDone(p) ==
    Cardinality({i \in Calls(p, "Query") : ops[p][i].ok}) = Len(Configured(variant))
\* run() went through all its stages and returned nil
Completed(p) ==
    /\ pc[p] = "returned"
    /\ err[p] = "nil"
    /\ Calls(p, "PutObject") # {}
UploadErrors == {"awsconfig", "open", "upload"}

\* ------------------------------------------------------------------ C1
\* C1: a delete statement is issued only after the PutObject of the same run
\* returned success, and a run whose upload step failed (AWS configuration,
\* opening the file, PutObject) ends without any delete statement.
C1_DeleteOnlyAfterUpload ==
    \A p \in Procs :
        /\ \A i \in Calls(p, "Delete") :
              \E j \in 1..(i - 1) : ops[p][j].op = "PutObject" /\ ops[p][j].ok
        /\ (pc[p] = "returned" /\ err[p] \in UploadErrors) => Calls(p, "Delete") = {}

\* a run whose PutObject failed has returned while a configured table still
\* holds rows older than its cutoff
C1_Witness ==
    \E p \in Procs :
        /\ pc[p] = "returned" /\ err[p] = "upload"
        /\ \E i \in Calls(p, "PutObject") : ~ops[p][i].ok
        /\ \E t \in Range(Configured(variant)) : Matching(tables[t], cutoff[p]) # {}

\* ------------------------------------------------------------------ C2
\* C2: when a run completes, the rows its purge removed from each configured
\* source are exactly the rows of that source in the batch it uploaded.
C2_PurgeRemovesTheArchivedRows ==
    \A p \in Procs :
        Completed(p) =>
            /\ \E o \in s3 : o.key = s3Key[p] /\ o.body = Encode(variant, allRecords[p])
            /\ \A t \in Range(Configured(variant)) : Removed(p, t) = Extracted(p, t)

\* ------------------------------------------------------------------ C3
\* C3: when every configured source returned zero rows, the run writes no
\* file, uploads nothing, issues no delete statement and returns nil, which
\* main() turns into exit status 0.
C3_EmptyBatchIsNoOp ==
    \A p \in Procs :
        (ExtractionDone(p) /\ allRecords[p] = <<>>) =>
            /\ \A i \in DOMAIN ops[p] : ops[p][i].op = "Query"
            /\ pc[p] \in {"check", "returned"}
            /\ pc[p] = "returned" => ExitStatus(pc[p], err[p]) = 0

\* an empty-batch run has returned although its tables are not empty
C3_Witness ==
    \E p \in Procs :
        /\ pc[p] = "returned"
        /\ ExtractionDone(p) /\ allRecords[p] = <<>>
        /\ \E t \in Range(Configured(variant)) : tables[t] # {}
        /\ file = NoFile /\ s3 = {}

\* ------------------------------------------------------------------ C4
\* the step is a delete statement of p on table t that the database executed
DeleteStep(p, t) ==
    /\ pc[p] = "purge"
    /\ Len(ops'[p]) = Len(ops[p]) + 1
    /\ ops'[p][Len(ops'[p])].op = "Delete"
    /\ ops'[p][Len(ops'[p])].table = t
    /\ tables'[t] # tables[t] \/ ops'[p][Len(ops'[p])].ok

\* C4: a delete statement of a run removes a row of the table if and only if
\* the row's timestamp is strictly less than the cutoff the run computed at its
\* start; no step removes any other row, and no record of the batch has a
\* timestamp at or after the cutoff.
C4_DeletedIffBelowCutoff ==
    /\ [](\A p \in Procs : \A i \in DOMAIN allRecords[p] :
            allRecords[p][i].Timestamp < cutoff[p])
    /\ [][ /\ \A p \in Procs, t \in Tables :
                DeleteStep(p, t) =>
                    \A r \in tables[t] : r \notin tables'[t] <=> r.timestamp < cutoff[p]
           /\ \A t \in Tables : \A r \in tables[t] \ tables'[t] :
                \E p \in Procs : DeleteStep(p, t) /\ r.timestamp < cutoff[p]
         ]_vars

\* a delete statement removed rows and left a row whose timestamp is the cutoff
C4_Witness ==
    \E p \in Procs : \E i \in Calls(p, "Delete") :
        /\ ops[p][i].rows # {}
        /\ \E r \in tables[ops[p][i].table] : r.timestamp = cutoff[p]

\* ------------------------------------------------------------------ C5
\* C5: the key of an uploaded artifact is unique to it: no PutObject replaces
\* the body an earlier upload stored under the same key by a different one.
C5_PutNeverOverwrites ==
    [][\A o \in s3 : \E n \in s3' : n.key = o.key /\ n.body = o.body]_vars

\* ------------------------------------------------------------------ C6
\* the maximum of the timestamps of the records
MaxTimestamp(records) ==
    CHOOSE m \in {records[i].Timestamp : i \in DOMAIN records} :
        \A i \in DOMAIN records : m >= records[i].Timestamp

\* C6: the year and month of the object key are the year and month of the
\* maximum record timestamp of the whole batch, and a successful PutObject
\* stores the artifact under that key.
C6_KeyMonthOfLatestRecord ==
    \A p \in Procs :
        s3Key[p] # NoKey =>
            /\ s3Key[p].year = Year(MaxTimestamp(allRecords[p]))
            /\ s3Key[p].month = Month(MaxTimestamp(allRecords[p]))
            /\ \A i \in Calls(p, "PutObject") :
                  ops[p][i].ok => \E o \in s3 : o.key = s3Key[p]

\* a completed multi-table run whose latest record is not its first one and
\* lies in another month
C6_Witness ==
    \E p \in Procs :
        /\ variant = "multi" /\ Completed(p)
        /\ Month(allRecords[p][1].Timestamp) # s3Key[p].month
        /\ allRecords[p][1].TableName # allRecords[p][Len(allRecords[p])].TableName

\* ------------------------------------------------------------------ C7
QueryErrors == {"query", "scan", "rows"}

\* C7: a query error or row-scan error on any source is the last call of the
\* run: nothing is written, uploaded or deleted after it, and run() returns
\* the error.
C7_QueryErrorAborts ==
    \A p \in Procs : \A i \in Calls(p, "Query") :
        ~ops[p][i].ok =>
            /\ i = Len(ops[p])
            /\ pc[p] = "returned"
            /\ err[p] \in QueryErrors
            /\ ExitStatus(pc[p], err[p]) = 1

\* the query of the second table failed after the first table's rows were read
C7_Witness ==
    \E p \in Procs :
        /\ pc[p] = "returned" /\ Len(ops[p]) = 2
        /\ ops[p][1].ok /\ ops[p][1].rows # {} /\ allRecords[p] # <<>>
        /\ ops[p][2].op = "Query" /\ ops[p][2].table = tableNames[2] /\ ~ops[p][2].ok
        /\ file = NoFile /\ s3 = {}

\* ------------------------------------------------------------------ C8
Stage(o) ==
    CASE o.op = "Query" -> 1 [] o.op = "WriteFile" -> 2
      [] o.op = "PutObject" -> 3 [] o.op = "Delete" -> 4

\* C8: the calls of a run come in the order Extracting, Encoding, Uploading,
\* Purging: the file is written after every configured source was queried, the
\* upload follows the successful write of the file, which is closed by then,
\* every delete follows the successful upload, and a failed call is the last
\* call of its run, which returns an error.
C8_StagesInOrder ==
    \A p \in Procs :
        /\ \A i, j \in DOMAIN ops[p] : i < j => Stage(ops[p][i]) <= Stage(ops[p][j])
        /\ \A i \in Calls(p, "WriteFile") :
              /\ i = Len(Configured(variant)) + 1
              /\ \A j \in 1..(i - 1) : ops[p][j].ok
        /\ \A i \in Calls(p, "PutObject") :
              i > 1 /\ ops[p][i - 1].op = "WriteFile" /\ ops[p][i - 1].ok
        /\ \A i \in Calls(p, "Delete") :
              \E j \in 1..(i - 1) : ops[p][j].op = "PutObject" /\ ops[p][j].ok
        /\ \A i \in DOMAIN ops[p] :
              ~ops[p][i].ok => i = Len(ops[p]) /\ pc[p] = "returned" /\ err[p] # "nil"
        /\ pc[p] \in {"config", "open", "put"} => file.state = "closed"

\* a multi-table run went through every stage
C8_Witness ==
    \E p \in Procs :
        /\ variant = "multi" /\ Completed(p)
        /\ [i \in DOMAIN ops[p] |-> ops[p][i].op] =
              <<"Query", "Query", "WriteFile", "PutObject", "Delete", "Delete">>
        /\ \A i \in DOMAIN ops[p] : ops[p][i].ok

\* ------------------------------------------------------------------ C9
\* the rows of table t that matched the extraction query of p
Queried(p, t) ==
    UNION {ops[p][i].rows : i \in {j \in Calls(p, "Query") : ops[p][j].table = t}}
\* the records of the batch of p that came from table t
RecordsOf(p, t) ==
    {i \in DOMAIN allRecords[p] : variant = "multi" => allRecords[p][i].TableName = t}
\* no table held more matching rows than one batch takes, and no row that
\* matches came in between the query and the delete
WithinBatchAndQuiet(p) ==
    \A t \in Range(Configured(variant)) :
        /\ Cardinality(Queried(p, t)) <= batchSize
        /\ Removed(p, t) \subseteq Queried(p, t)

\* C9: when every source holds at most batchSize qualifying rows and no other
\* writer adds one, a completed run leaves one file with exactly one record per
\* qualifying row, each tagged with the table it was read from, and its purge
\* removes exactly those rows from each source.
C9_OneRecordPerQualifyingRow ==
    \A p \in Procs :
        (Completed(p) /\ WithinBatchAndQuiet(p)) =>
            /\ file = [state |-> "closed", rows |-> Encode(variant, allRecords[p])]
            /\ \A i \in DOMAIN allRecords[p] :
                  variant = "multi" => allRecords[p][i].TableName \in Range(tableNames)
            /\ \A t \in Range(Configured(variant)) :
                  /\ Extracted(p, t) = Queried(p, t)
                  /\ Cardinality(RecordsOf(p, t)) = Cardinality(Queried(p, t))
                  /\ Removed(p, t) = Queried(p, t)

\* table a held 3 qualifying rows and table b none: the file has 3 records
\* tagged a, 3 rows were deleted from a and none from b
C9_Witness ==
    \E p \in Procs :
        /\ variant = "multi" /\ Completed(p) /\ WithinBatchAndQuiet(p)
        /\ Cardinality(Queried(p, "a")) = 3 /\ Queried(p, "b") = {}
        /\ Len(file.rows) = 3
        /\ \A i \in DOMAIN file.rows : file.rows[i].TableName = "a"
        /\ Cardinality(Removed(p, "a")) = 3 /\ Removed(p, "b") = {}

\* ----------------------------------------------------------------- C10
\* the run ended as an empty-batch no-op
EmptyNoOp(p) ==
    /\ ExtractionDone(p)
    /\ allRecords[p] = <<>>
    /\ Len(ops[p]) = Len(Configured(variant))
\* the run completed every stage
AllStages(p) ==
    /\ \A i \in DOMAIN ops[p] : ops[p][i].ok
    /\ Calls(p, "PutObject") # {}
    /\ Cardinality(Calls(p, "Delete")) = Len(Configured(variant))

\* C10: the process exits with status 0 exactly when run() completed every
\* stage or ended as an empty-batch no-op, and with status 1 otherwise (a
\* failed stage or a recovered panic); after a PutObject error the encoded
\* file is still on disk and no delete was issued.
C10_ExitStatus ==
    /\ [](\A p \in Procs :
            (pc[p] = "returned" /\ err[p] = "upload") =>
                /\ file = [state |-> "closed", rows |-> Encode(variant, allRecords[p])]
                /\ Calls(p, "Delete") = {})
    /\ [][\A p \in Procs :
            (pc[p] # "exited" /\ pc'[p] = "exited") =>
                exit'[p] = IF pc[p] = "returned" /\ (EmptyNoOp(p) \/ AllStages(p))
                           THEN 0 ELSE 1]_vars

\* the process exited with status 1 on a PutObject error, the encoded file on disk
C10_Witness ==
    \E p \in Procs :
        /\ pc[p] = "exited" /\ err[p] = "upload" /\ exit[p] = 1
        /\ file.state = "closed" /\ file.rows # <<>>
        /\ s3 = {}

\* ------------------------------------------------- the encoder on its own
\* the zero time.Time (January 1, year 1): before the instants UnixNano can count
ZeroTime == 0 - (MaxInt64 \div NanosPerTick + 2)
\* the timestamps a timestamp column can hold
CodecTimes == ZeroTime..(MaxInt64 \div NanosPerTick)
CodecRecords(v) ==
    IF v = "multi"
    THEN [ID : Ids, Timestamp : CodecTimes, DeviceID : Devices, Value : Values,
          TableName : Tables]
    ELSE [ID : Ids, Timestamp : CodecTimes, DeviceID : Devices, Value : Values]

\* run() is about to encode a batch of two records
InitCodec ==
    /\ now = AddDate(StartCutoff, retentionDays)
    /\ variant \in Variants
    /\ tables = [t \in Tables |-> {}]
    /\ file = NoFile
    /\ s3 = {}
    /\ runs = 1
    /\ inserts = 0
    /\ pc = [p \in Procs |-> IF p \in SeqProcs THEN "encode" ELSE "idle"]
    /\ cutoff = [p \in Procs |-> IF p \in SeqProcs THEN StartCutoff ELSE NoTime]
    /\ tix = [p \in Procs |-> 1]
    /\ \E r1 \in CodecRecords(variant), r2 \in CodecRecords(variant) :
          allRecords = [p \in Procs |-> IF p \in SeqProcs THEN <<r1, r2>> ELSE <<>>]
    /\ lastTimestamp = [p \in Procs |-> NoTime]
    /\ s3Key = [p \in Procs |-> NoKey]
    /\ err = [p \in Procs |-> "nil"]
    /\ exit = [p \in Procs |-> NoExit]
    /\ ops = [p \in Procs |-> <<>>]
    /\ retained = NoneRetained

NextCodec == \E p \in SeqProcs : WriteParquetFile(p)

\* the encoder applied to a batch of any two records
SpecCodec == InitCodec /\ [][NextCodec]_vars

\* the record a reader rebuilds from a file row: time.Unix(0, row.Timestamp)
FromParquet(row) ==
    [f \in DOMAIN row |->
        IF f = "Timestamp" THEN row[f] \div NanosPerTick ELSE row[f]]

\* C11: a record converted by ToParquet and decoded back is the same record
\* (the instant is recovered from the stored nanosecond count), and two
\* different records of a batch never encode to the same file row
C11_RoundTrip ==
    \A p \in SeqProcs :
        (pc[p] = "config" /\ file.state = "closed") =>
            /\ Len(file.rows) = Len(allRecords[p])
            /\ \A i \in DOMAIN file.rows : FromParquet(file.rows[i]) = allRecords[p][i]
            /\ \A i, j \in DOMAIN file.rows :
                  file.rows[i] = file.rows[j] => allRecords[p][i] = allRecords[p][j]

\* ------------------------------------------------------------------ C12
\* the step appends a call o to the log of p
Called(p, o) ==
    /\ Len(ops'[p]) = Len(ops[p]) + 1
    /\ ops'[p][Len(ops'[p])].op = o

\* C12: the cutoff is computed once, when the run starts, as the clock minus
\* the retention period; it does not change while the run goes on, every
\* extraction query takes the rows below it and every delete statement removes
\* the rows below it, however far the clock has moved since.
C12_OneCutoffPerRun ==
    [][\A p \in Procs :
        /\ (pc[p] \notin Running /\ pc'[p] = "extract") =>
              cutoff'[p] = AddDate(now, -retentionDays)
        /\ (pc[p] \in Running /\ pc'[p] \in Running \cup {"returned"}) =>
              cutoff'[p] = cutoff[p]
        /\ (Called(p, "Query") /\ ops'[p][Len(ops'[p])].ok) =>
              LET t == ops'[p][Len(ops'[p])].table
                  new == SubSeq(allRecords'[p], Len(allRecords[p]) + 1, Len(allRecords'[p]))
              IN /\ \A i \in DOMAIN new : new[i].Timestamp < cutoff[p]
                 /\ Len(new) = Min(batchSize, Cardinality(Matching(tables[t], cutoff[p])))
        /\ \A t \in Tables :
              DeleteStep(p, t) => tables[t] \ tables'[t] = Matching(tables[t], cutoff[p])
      ]_vars

\* a delete statement of a run has removed rows and left a row that is not
\* below the run's cutoff but is below the cutoff the clock would give by now
C12_Witness ==
    \E p \in Procs : \E i \in Calls(p, "Delete") :
        /\ ops[p][i].ok /\ ops[p][i].rows # {}
        /\ cutoff[p] < AddDate(now, -retentionDays)
        /\ \E r \in tables[ops[p][i].table] :
              cutoff[p] <= r.timestamp /\ r.timestamp < AddDate(now, -retentionDays)

\* ------------------------------------------------------------------ C13
\* C13: when the delete statement of the k-th configured source fails, run()
\* returns the error at once: the k delete statements of the run went to the
\* first k sources in configuration order and all but the last succeeded, the
\* failed statement removed no row and restored none, and no source after the
\* k-th received a delete statement.
C13_FailedDeleteStopsThePurge ==
    /\ [](\A p \in Procs :
            (pc[p] = "returned" /\ err[p] = "delete") =>
                LET n == Len(ops[p])
                    k == Cardinality(Calls(p, "Delete"))
                IN /\ k >= 1 /\ k <= Len(Configured(variant))
                   /\ \A j \in 1..k :
                        /\ ops[p][n - k + j].op = "Delete"
                        /\ ops[p][n - k + j].table = Configured(variant)[j]
                        /\ ops[p][n - k + j].ok <=> j < k
                   /\ ops[p][n].rows = {}
                   /\ ExitStatus(pc[p], err[p]) = 1)
    /\ [][\A p \in Procs :
            (pc[p] = "purge" /\ pc'[p] = "returned" /\ err'[p] = "delete") =>
                tables' = tables]_vars

\* the delete statement of the second table failed after the first table was
\* purged: the first table holds no row below the cutoff, the second still does
C13_Witness ==
    \E p \in Procs :
        /\ variant = "multi" /\ pc[p] = "returned" /\ err[p] = "delete"
        /\ Cardinality(Calls(p, "Delete")) = 2
        /\ Removed(p, tableNames[1]) # {}
        /\ Matching(tables[tableNames[1]], cutoff[p]) = {}
        /\ Matching(tables[tableNames[2]], cutoff[p]) # {}

\* ------------------------------------------------------------------ C14
\* C14: after a run whose upload succeeded and whose purge failed, the next
\* run that completes has extracted every row the failed run left below its
\* cutoff, and the artifact it uploaded holds them.
C14_RetainedRowsArchivedByNextRun ==
    \A p \in Procs :
        Completed(p) =>
            /\ \A t \in Range(Configured(variant)) : retained[t] \subseteq Extracted(p, t)
            /\ \E o \in s3 : o.key = s3Key[p] /\ o.body = Encode(variant, allRecords[p])

\* ------------------------------------------------------------------ C15
EncoderErrors == {"create", "writer", "write", "stop", "close"}

\* C15: an error of the encoder (creating the file writer or the parquet
\* writer, writing a record, WriteStop, closing the file) is the last call of
\* the run: run() returns the error, the file handle has been closed, the
\* partly written file stays on disk, and the run makes no PutObject call and
\* issues no delete statement.
C15_EncoderErrorAborts ==
    \A p \in Procs : \A i \in Calls(p, "WriteFile") :
        ~ops[p][i].ok =>
            /\ i = Len(ops[p])
            /\ pc[p] = "returned"
            /\ err[p] \in EncoderErrors
            /\ ExitStatus(pc[p], err[p]) = 1
            /\ Calls(p, "PutObject") = {} /\ Calls(p, "Delete") = {}
            /\ file.state # "open"
            /\ err[p] # "create" => file = [state |-> "partial", rows |-> <<>>]
            /\ s3 = {}

\* writing a record failed: the run has returned, the partial file is on disk
\* and the tables still hold the rows of the batch
C15_Witness ==
    \E p \in Procs :
        /\ pc[p] = "returned" /\ err[p] = "write"
        /\ file.state = "partial"
        /\ allRecords[p] # <<>>
        /\ \A t \in Range(Configured(variant)) : Extracted(p, t) \subseteq tables[t]
        /\ ops[p][Len(ops[p])].op = "WriteFile"

\* ------------------------------------------------------------------ C16
\* C16: a run makes at most one PutObject call; it makes exactly one once it
\* is past its upload step, and a failed PutObject is the last call of the run,
\* which returns the error without another attempt.
C16_OneUploadAttempt ==
    \A p \in Procs :
        /\ Cardinality(Calls(p, "PutObject")) <= 1
        /\ (pc[p] = "purge" \/ Calls(p, "Delete") # {}
                \/ (pc[p] = "returned" /\ err[p] = "upload")) =>
              Cardinality(Calls(p, "PutObject")) = 1
        /\ \A i \in Calls(p, "PutObject") :
              ~ops[p][i].ok =>
                  i = Len(ops[p]) /\ pc[p] = "returned" /\ err[p] = "upload"

\* the one PutObject call of a run failed: the bucket is empty and the run has
\* returned with its file on disk
C16_Witness ==
    \E p \in Procs :
        /\ pc[p] = "returned" /\ err[p] = "upload"
        /\ Cardinality(Calls(p, "PutObject")) = 1
        /\ file.state = "closed" /\ file.rows # <<>>
        /\ s3 = {}

\* ------------------------------------------------------------------ C17
\* C17: at every point of a run the batch in memory holds at most batchSize
\* records of each configured source, hence at most batchSize records per
\* configured source in all.
C17_BatchBounded ==
    \A p \in Procs :
        /\ Len(allRecords[p]) <= Len(Configured(variant)) * batchSize
        /\ \A t \in Range(Configured(variant)) :
              Cardinality(RecordsOf(p, t)) <= batchSize

\* a table held more rows below the cutoff than one batch takes, and the batch
\* holds batchSize records of it
C17_Witness ==
    \E p \in Procs : \E t \in Range(Configured(variant)) :
        /\ Cardinality(Queried(p, t)) > batchSize
        /\ Cardinality(RecordsOf(p, t)) = batchSize
        /\ pc[p] \in Running

\* ------------------------------------------------------------------ C18
\* the place in the configuration of the source a record came from
SourceIndex(rec) ==
    IF variant = "multi"
    THEN CHOOSE k \in DOMAIN tableNames : tableNames[k] = rec.TableName
    ELSE 1

\* C18: the batch is grouped by source in configuration order and newest first
\* within each source, and the rows of the file the encoder wrote are the
\* records of the batch, one for one and in the same order.
C18_FileInBatchOrder ==
    \A p \in Procs :
        /\ \A i, j \in DOMAIN allRecords[p] :
              i < j =>
                  /\ SourceIndex(allRecords[p][i]) <= SourceIndex(allRecords[p][j])
                  /\ SourceIndex(allRecords[p][i]) = SourceIndex(allRecords[p][j]) =>
                        allRecords[p][i].Timestamp >= allRecords[p][j].Timestamp
        /\ (\E i \in Calls(p, "WriteFile") : ops[p][i].ok) =>
              /\ file.state = "closed"
              /\ Len(file.rows) = Len(allRecords[p])
              /\ \A i \in DOMAIN file.rows :
                    file.rows[i] = IF variant = "multi" THEN ToParquet(allRecords[p][i])
                                   ELSE ToParquetSingle(allRecords[p][i])

\* a file was written from a batch that is not in timestamp order as a whole:
\* two records of the first table, then a newer record of the second
C18_Witness ==
    \E p \in Procs :
        /\ variant = "multi"
        /\ \E i \in Calls(p, "WriteFile") : ops[p][i].ok
        /\ Len(allRecords[p]) >= 3
        /\ allRecords[p][1].TableName = tableNames[1]
        /\ allRecords[p][2].TableName = tableNames[1]
        /\ allRecords[p][1].Timestamp > allRecords[p][2].Timestamp
        /\ allRecords[p][Len(allRecords[p])].TableName = tableNames[2]
        /\ allRecords[p][Len(allRecords[p])].Timestamp > allRecords[p][2].Timestamp
        /\ file.rows[Len(file.rows)].TableName = tableNames[2]

\* ------------------------------------------------------- overlapping runs
\* two invocations of the archiver on one machine against the same tables,
\* neither waiting for the other
NextConc ==
    \/ \E p \in Procs : Start(p)
    \/ \E p \in Procs : ProcessTable(p)
    \/ \E p \in Procs : CheckEmpty(p)
    \/ \E p \in Procs : WriteParquetFile(p)
    \/ \E p \in Procs : LoadConfig(p)
    \/ \E p \in Procs : OpenFile(p)
    \/ \E p \in Procs : PutObject(p)
    \/ \E p \in Procs : DeleteArchivedRecords(p)
    \/ \E p \in Procs : Main(p)

SpecConc == Init /\ [][NextConc]_vars

\* ------------------------------------------------------------------ C19
\* C19: nothing makes a run wait for another: an invocation can start, query
\* a table and issue its delete statement whatever the other process is doing,
\* so two runs can hold the same row in their batches and, both being at their
\* purge, either can issue its delete statement first.
C19_RunsNeverWait ==
    \A p \in Procs :
        /\ pc[p] = "idle" => ENABLED Start(p)
        /\ pc[p] = "extract" => ENABLED ProcessTable(p)
        /\ pc[p] = "put" => ENABLED PutObject(p)
        /\ pc[p] = "purge" => ENABLED DeleteArchivedRecords(p)

\* both runs have extracted the same row and uploaded an artifact with it, the
\* row is still in its table, and both are about to issue their first delete
C19_Witness ==
    \E t \in Range(Configured(variant)) : \E r \in tables[t] :
        \A p \in Procs :
            /\ pc[p] = "purge" /\ Calls(p, "Delete") = {}
            /\ \E i \in Calls(p, "PutObject") : ops[p][i].ok
            /\ r \in Extracted(p, t)
            /\ \E o \in s3 :
                  /\ o.key = s3Key[p]
                  /\ \E i \in DOMAIN o.body :
                        /\ o.body[i].ID = r.id
                        /\ o.body[i].Timestamp = UnixNano(r.timestamp)

\* ------------------------------------------------------------------ C20
\* C20: in a sequence of runs that do not overlap, the body a PutObject stores
\* is the encoding of the batch of the run that makes the call: when the run
\* opens /tmp/archive.parquet its own encoder has rewritten it, whatever an
\* earlier run left there, and a run with an empty batch makes no PutObject
\* call at all.
C20_UploadsItsOwnBatch ==
    /\ [](\A p \in Procs :
            /\ pc[p] \in {"config", "open", "put"} =>
                  /\ allRecords[p] # <<>>
                  /\ file = [state |-> "closed", rows |-> Encode(variant, allRecords[p])]
            /\ allRecords[p] = <<>> => Calls(p, "PutObject") = {})
    /\ [][\A p \in Procs :
            (Called(p, "PutObject") /\ ops'[p][Len(ops'[p])].ok) =>
                \E o \in s3' :
                    /\ o.key = s3Key[p]
                    /\ o.body = Encode(variant, allRecords[p])
                    /\ \A n \in s3' \ {o} : n \in s3 /\ n.key # o.key
      ]_vars

\* the second run of a sequence has uploaded its batch under another key than
\* the first, whose file it found on disk
C20_Witness ==
    \E p \in Procs :
        /\ runs = 2
        /\ \E i \in Calls(p, "PutObject") : ops[p][i].ok
        /\ Cardinality(s3) = 2
        /\ \E o \in s3 : o.key = s3Key[p] /\ o.body = Encode(variant, allRecords[p])
        /\ \E o \in s3 : o.key # s3Key[p] /\ o.body # Encode(variant, allRecords[p])

====
